---- MODULE Spec2Model ----
(***************************************************************************)
(* Model of birdeye_tracker.py: the reconnecting WebSocket supervisor      *)
(* connect_and_track, the subscription batcher                             *)
(* subscribe_to_multiple_trades, the payload normalizer                    *)
(* safe_parse_transaction and the sink process_transaction.                *)
(*                                                                         *)
(* JSON values are records of one shape [k, s, hi, lo, f]: k is the JSON   *)
(* kind, s the text of a string, and a number is hi * 10^9 + lo seconds    *)
(* plus f * 10^-7 seconds (two limbs, because TLC integers have 32 bits    *)
(* and the largest renderable timestamp, 253402300799, does not fit).      *)
(***************************************************************************)
EXTENDS Integers, Sequences, FiniteSets, TLC

VARIABLES
    pc,               \* position of connect_and_track
    all_tokens,       \* the global registry (a Python set)
    inbox,            \* frames received on the connection, not yet iterated
    nextNo,           \* arrival number of the last frame of this connection
    handledNo,        \* arrival number of the last frame the loop body took
    sent,             \* requests ws.send accepted on this connection
    store,            \* keys of the objects uploaded to the bucket
    content,          \* per key of the bucket, the record last uploaded to it
    puts,             \* calls of blob.upload_from_string so far
    txs,              \* TXS_DATA messages received so far
    last,             \* what the last loop body did: the branch it ended in
                      \* and the token or storage key it was about
    subscribes,       \* per token, the calls of line 73 so far
    outcome,          \* how the last connection (attempt) ended
    slept,            \* seconds slept on the way to the current connect
    delivered,        \* frames delivered so far (bounds the run)
    token_addresses,  \* argument of a stand-alone subscribe_to_multiple_trades
    bpc,              \* position of that stand-alone call
    bsent,            \* requests that call has sent
    payload,          \* argument of a stand-alone safe_parse_transaction
    parsed,           \* what that call returned
    ppc               \* position of that stand-alone call

vars == <<pc, all_tokens, inbox, nextNo, handledNo, sent, store, content, puts,
          txs, last, subscribes, outcome, slept, delivered, token_addresses,
          bpc, bsent, payload, parsed, ppc>>

sessionVars == <<pc, all_tokens, inbox, nextNo, handledNo, sent, store, content,
                 puts, txs, last, subscribes, outcome, slept, delivered>>

batchVars == <<token_addresses, bpc, bsent>>

parseVars == <<payload, parsed, ppc>>

(***************************************************************************)
(* Bounds of the model and constants of the program.                       *)
(***************************************************************************)
MaxMsgs == 3          \* frames delivered in a run of Spec
MaxSinkMsgs == 2      \* frames delivered in a run of SinkSpec
MaxInbox == 2         \* frames buffered ahead of the receive loop
MaxTokens == 250      \* longest list given to the stand-alone batcher call
CHUNK_SIZE == 100     \* line 91
BackoffSeconds == 5   \* line 85
Limb == 1000000000    \* 10^9, the base of the two-limb numbers
SecondsPerDay == 86400
MaxRenderHi == 253    \* 253402300799 = 9999-12-31 23:59:59 UTC, the last
MaxRenderLo == 402300799  \* second datetime can represent

(***************************************************************************)
(* JSON values.                                                            *)
(***************************************************************************)
Absent == [k |-> "absent", s |-> "", hi |-> 0, lo |-> 0, f |-> 0]
Null == [k |-> "null", s |-> "", hi |-> 0, lo |-> 0, f |-> 0]
JStr(str) == [k |-> "str", s |-> str, hi |-> 0, lo |-> 0, f |-> 0]
JInt(h, l) == [k |-> "int", s |-> "", hi |-> h, lo |-> l, f |-> 0]
JFloat(h, l, frac) == [k |-> "float", s |-> "", hi |-> h, lo |-> l, f |-> frac]
JNaN == [k |-> "nan", s |-> "", hi |-> 0, lo |-> 0, f |-> 0]
JBool(b) == [k |-> "bool", s |-> "", hi |-> 0, lo |-> IF b THEN 1 ELSE 0, f |-> 0]
JList == [k |-> "list", s |-> "", hi |-> 0, lo |-> 0, f |-> 0]
JMap == [k |-> "map", s |-> "", hi |-> 0, lo |-> 0, f |-> 0]

\* The value of the "to" field: a mapping with its own address, or not one.
ToAbsent == [k |-> "absent", address |-> Absent]
ToStr == [k |-> "str", address |-> Absent]
ToMap(a) == [k |-> "map", address |-> a]

\* dict.get(key): an absent key reads as None.
Get(v) == IF v.k = "absent" THEN Null ELSE v

\* Python truth value of a JSON value.
Truthy(v) ==
    CASE v.k = "str" -> v.s # ""
      [] v.k \in {"int", "bool"} -> v.hi # 0 \/ v.lo # 0
      [] v.k = "float" -> v.hi # 0 \/ v.lo # 0 \/ v.f # 0
      [] v.k = "nan" -> TRUE
      [] v.k \in {"list", "map"} -> TRUE   \* only non-empty ones are modelled
      [] OTHER -> FALSE

\* str(v) as an f-string renders it (addresses are strings or integers here).
Format(v) == IF v.k = "str" THEN v.s ELSE ToString(v.hi * Limb + v.lo)

\* A mapping, by the keys the program reads plus one it does not.
Mapping(addr, ta, to, bt, other) ==
    [address |-> addr, tokenAddress |-> ta, to |-> to, blockUnixTime |-> bt,
     amount |-> other]

EmptyMapping == Mapping(Absent, Absent, ToAbsent, Absent, Absent)

\* bool(dict): only the empty mapping is false.
TruthyMapping(m) == m # EmptyMapping


(***************************************************************************)
(* datetime.fromtimestamp(block_time, tz=timezone.utc).strftime(...)       *)
(***************************************************************************)
\* Microseconds of a float, rounded half to even as fromtimestamp does.
Microseconds(v) ==
    LET us == v.f \div 10
        rest == v.f % 10
    IN IF rest > 5 \/ (rest = 5 /\ us % 2 = 1) THEN us + 1 ELSE us

\* Whole seconds of a number handed to fromtimestamp, as limbs <<hi, lo>>:
\* True counts as 1, a float carries into the next second when its
\* microseconds round up to 1000000.
WholeSeconds(v) ==
    IF v.k = "float" /\ Microseconds(v) >= 1000000
    THEN IF v.lo + 1 = Limb THEN <<v.hi + 1, 0>> ELSE <<v.hi, v.lo + 1>>
    ELSE <<v.hi, v.lo>>

\* fromtimestamp raises (ValueError, OverflowError) for NaN and for a second
\* outside the years datetime represents. Numbers drawn here are >= 0.
TimestampRaises(v) ==
    LET t == WholeSeconds(v)
    IN \/ v.k = "nan"
       \/ t[1] < 0
       \/ t[1] > MaxRenderHi
       \/ (t[1] = MaxRenderHi /\ t[2] > MaxRenderLo)

\* Days since 1970-01-01 and second of the day: 10^9 = 11574 * 86400 + 6400.
EpochDays(t) ==
    t[1] * (Limb \div SecondsPerDay)
        + (t[1] * (Limb % SecondsPerDay) + t[2]) \div SecondsPerDay

SecondOfDay(t) == (t[1] * (Limb % SecondsPerDay) + t[2]) % SecondsPerDay

\* Proleptic Gregorian date of a day number, <<year, month, day>>.
CivilFromDays(days) ==
    LET z == days + 719468
        era == z \div 146097
        doe == z - era * 146097
        yoe == (doe - doe \div 1460 + doe \div 36524 - doe \div 146096) \div 365
        doy == doe - (365 * yoe + yoe \div 4 - yoe \div 100)
        mp == (5 * doy + 2) \div 153
        d == doy - (153 * mp + 2) \div 5 + 1
        m == IF mp < 10 THEN mp + 3 ELSE mp - 9
        y == yoe + era * 400 + (IF m <= 2 THEN 1 ELSE 0)
    IN <<y, m, d>>

Pad2(n) == IF n < 10 THEN "0" \o ToString(n) ELSE ToString(n)

Pad4(n) ==
    IF n < 10 THEN "000" \o ToString(n)
    ELSE IF n < 100 THEN "00" \o ToString(n)
    ELSE IF n < 1000 THEN "0" \o ToString(n)
    ELSE ToString(n)

\* The format with day and month exchanged.
Strftime_DayMonth(v) ==
    LET t == WholeSeconds(v)
        date == CivilFromDays(EpochDays(t))
        sod == SecondOfDay(t)
    IN Pad4(date[1]) \o "-" \o Pad2(date[3]) \o "-" \o Pad2(date[2]) \o "_"
        \o Pad2(sod \div 3600) \o "-" \o Pad2((sod % 3600) \div 60) \o "-"
        \o Pad2(sod % 60)

\* strftime("%Y-%m-%d_%H-%M-%S") of the UTC time of a number.
Strftime(v) ==
    LET t == WholeSeconds(v)
        date == CivilFromDays(EpochDays(t))
        sod == SecondOfDay(t)
    IN Pad4(date[1]) \o "-" \o Pad2(date[2]) \o "-" \o Pad2(date[3]) \o "_"
        \o Pad2(sod \div 3600) \o "-" \o Pad2((sod % 3600) \div 60) \o "-"
        \o Pad2(sod % 60)

(***************************************************************************)
(* process_transaction, up to the upload.                                  *)
(***************************************************************************)
\* The address inside "to" first, else the direct field.
ResolveToken_NestedFirst(m) ==
    IF m.to.k = "map" /\ Truthy(Get(m.to.address)) THEN Get(m.to.address)
    ELSE Get(m.tokenAddress)

\* Lines 146-151: the direct field, else the address inside "to".
ResolveToken(m) ==
    LET direct == Get(m.tokenAddress)
    IN IF Truthy(direct) THEN direct
       ELSE IF m.to.k = "map" THEN Get(m.to.address)
       ELSE direct

\* Line 159: isinstance(block_time, (int, float)); bool is a subclass of int.
IsIntOrFloat(v) == v.k \in {"int", "float", "nan", "bool"}

\* The name with the fraction of the second in it.
Filename_WithFraction(token, v) ==
    "transactions/" \o Format(token) \o "/" \o Strftime(v) \o "."
        \o ToString(v.f) \o ".json"

\* Line 166: f"transactions/{token_address}/{timestamp}.json".
Filename(token, v) ==
    "transactions/" \o Format(token) \o "/" \o Strftime(v) \o ".json"

\* What process_transaction does with a mapping before it touches the
\* bucket: the line it returns at, and the key it uploads to if it gets
\* that far.
Prepare(m) ==
    LET token == ResolveToken(m)
        block_time == Get(m.blockUnixTime)
    IN IF ~Truthy(token) THEN [at |-> "no_token", key |-> ""]
       ELSE IF ~IsIntOrFloat(block_time) THEN [at |-> "bad_time", key |-> ""]
       ELSE IF TimestampRaises(block_time) THEN [at |-> "error", key |-> ""]
       ELSE [at |-> "upload", key |-> Filename(token, block_time)]

(***************************************************************************)
(* safe_parse_transaction.  A data payload is [k, decoded, m]: k its JSON  *)
(* kind, and for a string what json.loads makes of it: decoded is "map"    *)
(* (then m is the mapping), another kind, or "error" (JSONDecodeError).    *)
(***************************************************************************)
NoData == [k |-> "absent", decoded |-> "", m |-> EmptyMapping]
DataOf(kind) == [k |-> kind, decoded |-> "", m |-> EmptyMapping]
DataMap(m) == [k |-> "map", decoded |-> "", m |-> m]
DataText(decoded, m) == [k |-> "str", decoded |-> decoded, m |-> m]

\* What a call ends in: exc names the exception that leaves it ("" when it
\* returns), ok is FALSE for None, m is the mapping returned.
None == [exc |-> "", ok |-> FALSE, m |-> EmptyMapping]

\* Lines 113-127, the body of the try: a mapping is returned as it is, text
\* goes through json.loads, which raises JSONDecodeError for text that does
\* not decode, and anything else is None.
ParseBody(data) ==
    IF data.k = "map" THEN [exc |-> "", ok |-> TRUE, m |-> data.m]
    ELSE IF data.k = "str"
         THEN IF data.decoded = "error"
              THEN [exc |-> "JSONDecodeError", ok |-> FALSE, m |-> EmptyMapping]
              ELSE IF data.decoded = "map"
                   THEN [exc |-> "", ok |-> TRUE, m |-> data.m]
                   ELSE None
    ELSE None

\* The function without the handlers of lines 129-134.
safe_parse_transaction_NoHandlers(data) == ParseBody(data)

\* Lines 106-134: the body under its two handlers, which return None.
safe_parse_transaction(data) ==
    LET result == ParseBody(data)
    IN IF result.exc # "" THEN None ELSE result


(***************************************************************************)
(* subscribe_to_multiple_trades.                                           *)
(***************************************************************************)
Min(a, b) == IF a < b THEN a ELSE b

\* Slices one element too long: token_addresses[i:i + CHUNK_SIZE + 1].
RECURSIVE TokenGroupsFrom_LongSlice(_, _)
TokenGroupsFrom_LongSlice(list, start) ==
    IF start >= Len(list) THEN <<>>
    ELSE <<SubSeq(list, start + 1, Min(start + CHUNK_SIZE + 1, Len(list)))>>
            \o TokenGroupsFrom_LongSlice(list, start + CHUNK_SIZE)

\* token_addresses[i:i + CHUNK_SIZE] for i in range(start, len, CHUNK_SIZE).
RECURSIVE TokenGroupsFrom(_, _)
TokenGroupsFrom(list, start) ==
    IF start >= Len(list) THEN <<>>
    ELSE <<SubSeq(list, start + 1, Min(start + CHUNK_SIZE, Len(list)))>>
            \o TokenGroupsFrom(list, start + CHUNK_SIZE)

TokenGroups(list) == TokenGroupsFrom(list, 0)

\* " OR ".join([f"address = {token}" for token in group]), joined by halves
\* (the join is associative) to keep the recursion shallow.
RECURSIVE Query(_)
Query(group) ==
    IF group = <<>> THEN ""
    ELSE IF Len(group) = 1 THEN "address = " \o group[1]
    ELSE LET half == Len(group) \div 2
         IN Query(SubSeq(group, 1, half)) \o " OR "
                \o Query(SubSeq(group, half + 1, Len(group)))

\* The two outbound messages; group is the loop variable the query was
\* built from.
NewListingRequest ==
    [type |-> "SUBSCRIBE_TOKEN_NEW_LISTING", queryType |-> "", query |-> "",
     group |-> <<>>]

SubscriptionMessage(group) ==
    [type |-> "SUBSCRIBE_TXS", queryType |-> "complex", query |-> Query(group),
     group |-> group]

\* The messages one call sends, in order, when no send raises.
Subscriptions(list) ==
    LET groups == TokenGroups(list)
    IN [g \in 1..Len(groups) |-> SubscriptionMessage(groups[g])]

\* list(all_tokens): a set iterates in an order the program does not choose.
Orders(S) ==
    {o \in [1..Cardinality(S) -> S] : \A i, j \in DOMAIN o : o[i] = o[j] => i = j}

\* The tokens the requests of a connection cover.
Covered(requests) ==
    UNION {{requests[i].group[j] : j \in DOMAIN requests[i].group} :
            i \in DOMAIN requests}

(***************************************************************************)
(* Inbound frames.  A frame is [shape, type, data]: shape "badjson" is     *)
(* text json.loads rejects, "list" a JSON value that is no mapping, "map"  *)
(* a mapping with its "type" ("" when absent) and "data".                  *)
(***************************************************************************)
Frame(type, data) == [shape |-> "map", type |-> type, data |-> data]
BadJson == [shape |-> "badjson", type |-> "", data |-> NoData]
NotAMapping == [shape |-> "list", type |-> "", data |-> NoData]

Listing(addr) ==
    Frame("TOKEN_NEW_LISTING_DATA",
          DataMap(Mapping(addr, Absent, ToAbsent, Absent, Absent)))

Txs(ta, to, bt) == Frame("TXS_DATA", DataMap(Mapping(Absent, ta, to, bt, Absent)))

Tokens == {"TOK1", "TOK2"}

SampleTime == JInt(1, 700000000)          \* 1700000000
LastTime == JInt(MaxRenderHi, MaxRenderLo)
TooLate == JInt(MaxRenderHi, MaxRenderLo + 1)

BlockTimes ==
    {Absent, Null, JStr("not-a-number"), JBool(TRUE), JList, JMap, JNaN,
     SampleTime, JInt(0, 951782399), JFloat(1, 700000000, 5000000),
     JFloat(0, 951782399, 9999996), LastTime, TooLate}

ListingFrames ==
    {Listing(a) : a \in {JStr("TOK1"), JStr("TOK2"), JStr(""), Absent, Null, JList}}
    \cup {Frame("TOKEN_NEW_LISTING_DATA", d) : d \in {NoData, DataOf("null"),
            DataText("map", Mapping(JStr("TOK1"), Absent, ToAbsent, Absent, Absent))}}

TxsFrames ==
    {Txs(JStr("TOK1"), ToAbsent, bt) : bt \in BlockTimes}
    \cup {Txs(ta, to, SampleTime) :
            ta \in {Absent, JStr("")},
            to \in {ToAbsent, ToStr, ToMap(Absent), ToMap(JStr("")),
                    ToMap(JStr("TOK2"))}}
    \cup {Txs(JStr("TOK1"), ToMap(JStr("TOK2")), SampleTime),
          Txs(Absent, ToAbsent, JStr("not-a-number"))}
    \cup {Frame("TXS_DATA", d) : d \in
            {NoData, DataOf("null"), DataOf("number"), DataOf("list"),
             DataMap(EmptyMapping),
             DataMap(Mapping(Absent, Absent, ToAbsent, Absent, JStr("1.5"))),
             DataMap(Mapping(Absent, JStr("TOK1"), ToAbsent, SampleTime,
                             JStr("1.5"))),
             DataText("error", EmptyMapping), DataText("list", EmptyMapping),
             DataText("map", EmptyMapping),
             DataText("map", Mapping(Absent, JStr("TOK2"), ToAbsent, SampleTime,
                                     Absent))}}

OtherFrames == {Frame("WELCOME", NoData), Frame("", NoData)}

Frames == {BadJson, NotAMapping} \cup ListingFrames \cup TxsFrames \cup OtherFrames

\* The frames of the runs that follow the session over several connections.
CoreFrames ==
    {BadJson, NotAMapping, Frame("WELCOME", NoData),
     Listing(JStr("TOK1")), Listing(JStr("TOK2")), Listing(JStr("")),
     Frame("TOKEN_NEW_LISTING_DATA", NoData),
     Txs(JStr("TOK1"), ToAbsent, SampleTime),
     Txs(Absent, ToMap(JStr("TOK2")), SampleTime),
     Txs(JStr("TOK1"), ToAbsent, TooLate),
     Txs(JStr("TOK1"), ToAbsent, JBool(TRUE)),
     Txs(Absent, ToAbsent, JStr("not-a-number")),
     Frame("TXS_DATA", DataOf("number")),
     Frame("TXS_DATA", DataText("map", Mapping(Absent, JStr("TOK2"), ToAbsent,
                                               SampleTime, Absent)))}

\* Lines 66-71 raise for this frame: json.loads on bad text, .get on a value
\* that is no mapping, ["data"] on a missing key, "in" on an unhashable
\* address.
Raises(frame) ==
    \/ frame.shape # "map"
    \/ /\ frame.type = "TOKEN_NEW_LISTING_DATA"
       /\ \/ frame.data.k # "map"
          \/ Get(frame.data.m.address).k \in {"list", "map"}

\* Line 71 without its membership test.
IsNewToken_NoMembership(frame, registry) == Truthy(Get(frame.data.m.address))

\* Line 71: the address is truthy and not in the registry.
IsNewToken(frame, registry) ==
    LET token_address == Get(frame.data.m.address)
    IN Truthy(token_address) /\ Format(token_address) \notin registry


(***************************************************************************)
(* connect_and_track.  Positions: "connect" (line 53, awaiting the         *)
(* connection), "subscribe" (lines 57-63), "recv" (line 65, awaiting the   *)
(* next frame), "backoff" (lines 84-85, sleeping), "except" (line 87).     *)
(***************************************************************************)
Did(branch, about) == [at |-> branch, arg |-> about]

Nothing == Did("none", "")

Init ==
    /\ pc = "connect"
    /\ all_tokens = {}
    /\ inbox = <<>>
    /\ nextNo = 0
    /\ handledNo = 0
    /\ sent = <<>>
    /\ store = {}
    /\ content = <<>>
    /\ puts = 0
    /\ txs = 0
    /\ last = Nothing
    /\ subscribes = [t \in Tokens |-> 0]
    /\ outcome = "none"
    /\ slept = 0
    /\ delivered = 0
    /\ token_addresses = <<>>
    /\ bpc = "idle"
    /\ bsent = <<>>
    /\ payload = NoData
    /\ parsed = None
    /\ ppc = "idle"

\* A connection that starts from an empty registry.
ConnectOk_FreshRegistry ==
    /\ pc = "connect"
    /\ pc' = "subscribe"
    /\ all_tokens' = {}
    /\ inbox' = <<>>
    /\ nextNo' = 0
    /\ handledNo' = 0
    /\ sent' = <<>>
    /\ last' = Nothing
    /\ outcome' = "none"
    /\ UNCHANGED <<store, content, puts, txs, subscribes, slept, delivered,
                   batchVars, parseVars>>

\* Line 53: the connection is established.
ConnectOk ==
    /\ pc = "connect"
    /\ pc' = "subscribe"
    /\ inbox' = <<>>
    /\ nextNo' = 0
    /\ handledNo' = 0
    /\ sent' = <<>>
    /\ last' = Nothing
    /\ outcome' = "none"
    /\ UNCHANGED <<all_tokens, store, content, puts, txs, subscribes, slept, delivered,
                   batchVars, parseVars>>

\* Line 53 raises (refused, handshake rejected, timeout): none of these is a
\* ConnectionClosed, so line 86 catches it.
ConnectFails ==
    /\ pc = "connect"
    /\ pc' = "except"
    /\ outcome' = "connect_failed"
    /\ slept' = 0
    /\ UNCHANGED <<all_tokens, inbox, nextNo, handledNo, sent, store, content, puts, txs,
                   last, subscribes, delivered, batchVars, parseVars>>

\* Lines 57-63 without lines 62-63.
InitialRequests_NoResubscribe(order) == <<NewListingRequest>>

\* What lines 57-63 send when no send raises, for one iteration order of
\* the registry.
InitialRequests(order) ==
    <<NewListingRequest>>
        \o (IF all_tokens # {} THEN Subscriptions(order) ELSE <<>>)

\* Lines 57-63, every send accepted.
Subscribe ==
    /\ pc = "subscribe"
    /\ \E order \in Orders(all_tokens) : sent' = InitialRequests(order)
    /\ pc' = "recv"
    /\ UNCHANGED <<all_tokens, inbox, nextNo, handledNo, store, content, puts, txs,
                   last, subscribes, outcome, slept, delivered, batchVars, parseVars>>

\* Lines 57-63 with the failure of a send swallowed: the session goes on to
\* the receive loop with the requests that went out.
SubscribeClosed_Continues ==
    /\ pc = "subscribe"
    /\ \E order \in Orders(all_tokens) :
         \E n \in 0..(Len(InitialRequests(order)) - 1) :
            sent' = SubSeq(InitialRequests(order), 1, n)
    /\ pc' = "recv"
    /\ UNCHANGED <<all_tokens, inbox, nextNo, handledNo, store, content, puts,
                   txs, last, subscribes, outcome, slept, delivered, batchVars,
                   parseVars>>

\* Lines 57-63, a send raises ConnectionClosed after n requests went out.
SubscribeClosed ==
    /\ pc = "subscribe"
    /\ \E order \in Orders(all_tokens) :
         \E n \in 0..(Len(InitialRequests(order)) - 1) :
            sent' = SubSeq(InitialRequests(order), 1, n)
    /\ pc' = "backoff"
    /\ outcome' = "closed"
    /\ slept' = 0
    /\ inbox' = <<>>
    /\ UNCHANGED <<all_tokens, nextNo, handledNo, store, content, puts, txs, last,
                   subscribes, delivered, batchVars, parseVars>>

\* The feed sends a frame; the library buffers it until the loop asks.
DeliverFrom(frames, limit) ==
    /\ pc \in {"subscribe", "recv"}
    /\ delivered < limit
    /\ Len(inbox) < MaxInbox
    /\ \E frame \in frames :
         inbox' = Append(inbox, [no |-> nextNo + 1, frame |-> frame])
    /\ nextNo' = nextNo + 1
    /\ delivered' = delivered + 1
    /\ UNCHANGED <<pc, all_tokens, handledNo, sent, store, content, puts, txs, last,
                   subscribes, outcome, slept, batchVars, parseVars>>

Deliver == DeliverFrom(CoreFrames, MaxMsgs)

DeliverAny == DeliverFrom(Frames, MaxSinkMsgs)

\* The newest buffered frame instead of the oldest.
NextFrame_Newest == inbox[Len(inbox)]

\* Line 65: the frame the loop body gets next.
NextFrame == Head(inbox)

\* The loop takes a frame: common to every loop body below.
Take ==
    /\ pc = "recv"
    /\ inbox # <<>>
    /\ handledNo' = NextFrame.no
    /\ UNCHANGED <<nextNo, delivered, batchVars, parseVars>>

\* The address of a listing frame as text ("" for None).
AddressOf(frame) ==
    LET token_address == Get(frame.data.m.address)
    IN IF Truthy(token_address) THEN Format(token_address) ELSE ""

\* Lines 66-71 raise: line 86 catches it, the connection is left.
RecvRaises ==
    /\ Take
    /\ Raises(NextFrame.frame)
    /\ pc' = "except"
    /\ outcome' = "fault"
    /\ slept' = 0
    /\ inbox' = <<>>
    /\ last' = Did("raised", "")
    /\ UNCHANGED <<all_tokens, sent, store, content, puts, txs, subscribes>>

\* Lines 69-73 for a new token, the send accepted.
RecvListingNew ==
    /\ Take
    /\ ~Raises(NextFrame.frame)
    /\ NextFrame.frame.type = "TOKEN_NEW_LISTING_DATA"
    /\ IsNewToken(NextFrame.frame, all_tokens)
    /\ LET token_address == AddressOf(NextFrame.frame)
       IN /\ all_tokens' = all_tokens \cup {token_address}
          /\ sent' = sent \o Subscriptions(<<token_address>>)
          /\ subscribes' = [subscribes EXCEPT ![token_address] = @ + 1]
          /\ last' = Did("subscribed", token_address)
    /\ inbox' = Tail(inbox)
    /\ UNCHANGED <<pc, store, content, puts, txs, outcome, slept>>

\* A failed send that takes the token out of the registry again.
RecvListingNewClosed_RollsBack ==
    /\ Take
    /\ ~Raises(NextFrame.frame)
    /\ NextFrame.frame.type = "TOKEN_NEW_LISTING_DATA"
    /\ IsNewToken(NextFrame.frame, all_tokens)
    /\ LET token_address == AddressOf(NextFrame.frame)
       IN /\ subscribes' = [subscribes EXCEPT ![token_address] = @ + 1]
          /\ last' = Did("send_closed", token_address)
    /\ pc' = "backoff"
    /\ outcome' = "closed"
    /\ slept' = 0
    /\ inbox' = <<>>
    /\ UNCHANGED <<all_tokens, sent, store, content, puts, txs>>

\* Lines 69-73 for a new token, the send raises ConnectionClosed.
RecvListingNewClosed ==
    /\ Take
    /\ ~Raises(NextFrame.frame)
    /\ NextFrame.frame.type = "TOKEN_NEW_LISTING_DATA"
    /\ IsNewToken(NextFrame.frame, all_tokens)
    /\ LET token_address == AddressOf(NextFrame.frame)
       IN /\ all_tokens' = all_tokens \cup {token_address}
          /\ subscribes' = [subscribes EXCEPT ![token_address] = @ + 1]
          /\ last' = Did("send_closed", token_address)
    /\ pc' = "backoff"
    /\ outcome' = "closed"
    /\ slept' = 0
    /\ inbox' = <<>>
    /\ UNCHANGED <<sent, store, content, puts, txs>>

\* A listing that subscribes whether or not line 71 holds.
RecvListingKnown_Resubscribes ==
    /\ Take
    /\ ~Raises(NextFrame.frame)
    /\ NextFrame.frame.type = "TOKEN_NEW_LISTING_DATA"
    /\ ~IsNewToken(NextFrame.frame, all_tokens)
    /\ inbox' = Tail(inbox)
    /\ sent' = sent \o Subscriptions(<<AddressOf(NextFrame.frame)>>)
    /\ last' = Did("known", AddressOf(NextFrame.frame))
    /\ UNCHANGED <<pc, all_tokens, store, content, puts, txs, subscribes,
                   outcome, slept>>

\* Lines 69-71 for an address that is absent, empty or already registered.
RecvListingKnown ==
    /\ Take
    /\ ~Raises(NextFrame.frame)
    /\ NextFrame.frame.type = "TOKEN_NEW_LISTING_DATA"
    /\ ~IsNewToken(NextFrame.frame, all_tokens)
    /\ inbox' = Tail(inbox)
    /\ last' = Did("known", AddressOf(NextFrame.frame))
    /\ UNCHANGED <<pc, all_tokens, sent, store, content, puts, txs, subscribes, outcome,
                   slept>>

\* Lines 76-79: what reaches the bucket for a TXS_DATA frame.
Sink(frame) ==
    LET tx_data == safe_parse_transaction(frame.data)
    IN IF tx_data.ok /\ TruthyMapping(tx_data.m) THEN Prepare(tx_data.m)
       ELSE [at |-> "missed", key |-> ""]

\* Lines 75-79 and 137-183: the record is uploaded.
RecvTxsUploaded ==
    /\ Take
    /\ ~Raises(NextFrame.frame)
    /\ NextFrame.frame.type = "TXS_DATA"
    /\ Sink(NextFrame.frame).at = "upload"
    /\ store' = store \cup {Sink(NextFrame.frame).key}
    /\ content' = [key \in store' |->
                        IF key = Sink(NextFrame.frame).key
                        THEN safe_parse_transaction(NextFrame.frame.data).m
                        ELSE content[key]]
    /\ puts' = puts + 1
    /\ last' = Did("uploaded", Sink(NextFrame.frame).key)
    /\ txs' = txs + 1
    /\ inbox' = Tail(inbox)
    /\ UNCHANGED <<pc, all_tokens, sent, subscribes, outcome, slept>>

\* The upload error escaping process_transaction, as without line 185.
RecvTxsUploadFails_Propagates ==
    /\ Take
    /\ ~Raises(NextFrame.frame)
    /\ NextFrame.frame.type = "TXS_DATA"
    /\ Sink(NextFrame.frame).at = "upload"
    /\ puts' = puts + 1
    /\ last' = Did("upload_error", Sink(NextFrame.frame).key)
    /\ txs' = txs + 1
    /\ pc' = "except"
    /\ outcome' = "fault"
    /\ slept' = 0
    /\ inbox' = <<>>
    /\ UNCHANGED <<all_tokens, sent, store, content, subscribes>>

\* Lines 75-79 and 137-186: upload_from_string raises, line 185 catches it.
RecvTxsUploadFails ==
    /\ Take
    /\ ~Raises(NextFrame.frame)
    /\ NextFrame.frame.type = "TXS_DATA"
    /\ Sink(NextFrame.frame).at = "upload"
    /\ puts' = puts + 1
    /\ last' = Did("upload_error", Sink(NextFrame.frame).key)
    /\ txs' = txs + 1
    /\ inbox' = Tail(inbox)
    /\ UNCHANGED <<pc, all_tokens, sent, store, content, subscribes, outcome, slept>>

\* Lines 75-81 and 137-161, 188-189: the record is dropped before any upload.
RecvTxsDropped ==
    /\ Take
    /\ ~Raises(NextFrame.frame)
    /\ NextFrame.frame.type = "TXS_DATA"
    /\ Sink(NextFrame.frame).at # "upload"
    /\ last' = Did(Sink(NextFrame.frame).at, "")
    /\ txs' = txs + 1
    /\ inbox' = Tail(inbox)
    /\ UNCHANGED <<pc, all_tokens, sent, store, content, puts, subscribes, outcome, slept>>

\* Lines 69 and 75 both false: the frame is ignored.
RecvOther ==
    /\ Take
    /\ ~Raises(NextFrame.frame)
    /\ NextFrame.frame.type \notin {"TOKEN_NEW_LISTING_DATA", "TXS_DATA"}
    /\ inbox' = Tail(inbox)
    /\ last' = Did("ignored", "")
    /\ UNCHANGED <<pc, all_tokens, sent, store, content, puts, txs, subscribes, outcome,
                   slept>>

\* Line 65: the connection closed normally (1000, 1001), the iteration ends
\* without an exception and line 51 loops.
ClosedOk ==
    /\ pc = "recv"
    /\ pc' = "connect"
    /\ outcome' = "closed_ok"
    /\ slept' = 0
    /\ inbox' = <<>>
    /\ UNCHANGED <<all_tokens, nextNo, handledNo, sent, store, content, puts, txs,
                   last, subscribes, delivered, batchVars, parseVars>>

\* Line 65 raises ConnectionClosedError: line 83 catches it.
ClosedError ==
    /\ pc = "recv"
    /\ pc' = "backoff"
    /\ outcome' = "closed"
    /\ slept' = 0
    /\ inbox' = <<>>
    /\ UNCHANGED <<all_tokens, nextNo, handledNo, sent, store, content, puts, txs,
                   last, subscribes, delivered, batchVars, parseVars>>

\* Lines 84-85: log, sleep 5 seconds, loop.
Backoff ==
    /\ pc = "backoff"
    /\ pc' = "connect"
    /\ slept' = BackoffSeconds
    /\ UNCHANGED <<all_tokens, inbox, nextNo, handledNo, sent, store, content, puts, txs,
                   last, subscribes, outcome, delivered, batchVars, parseVars>>

\* Lines 86-87 re-raising instead of looping.
ExceptException_Reraise ==
    /\ pc = "except"
    /\ pc' = "exited"
    /\ UNCHANGED <<all_tokens, inbox, nextNo, handledNo, sent, store, content, puts, txs,
                   last, subscribes, outcome, slept, delivered, batchVars, parseVars>>

\* Lines 86-87: log, loop.
ExceptException ==
    /\ pc = "except"
    /\ pc' = "connect"
    /\ UNCHANGED <<all_tokens, inbox, nextNo, handledNo, sent, store, content, puts, txs,
                   last, subscribes, outcome, slept, delivered, batchVars, parseVars>>

Supervisor ==
    \/ ConnectOk
    \/ ConnectFails
    \/ Subscribe
    \/ SubscribeClosed
    \/ RecvRaises
    \/ RecvListingNew
    \/ RecvListingNewClosed
    \/ RecvListingKnown
    \/ RecvTxsUploaded
    \/ RecvTxsUploadFails
    \/ RecvTxsDropped
    \/ RecvOther
    \/ ClosedOk
    \/ ClosedError
    \/ Backoff
    \/ ExceptException

Next == Deliver \/ Supervisor

Spec == Init /\ [][Next]_vars

\* The same program fed every kind of frame, over shorter runs.
SinkNext == DeliverAny \/ Supervisor

SinkSpec == Init /\ [][SinkNext]_vars

\* The supervisor's own steps always complete: the sleep returns, the
\* handler of line 87 returns, the connection attempt succeeds or raises.
FairSpec == Spec /\ WF_vars(Backoff) /\ WF_vars(ExceptException)

\* The session with a feed that announces tokens and sends no TXS_DATA:
\* the frames of CoreFrames of every other kind, and the steps they enable.
DiscoveryFrames == {frame \in CoreFrames : frame.type # "TXS_DATA"}

DeliverListings == DeliverFrom(DiscoveryFrames, MaxMsgs)

DiscoveryNext ==
    \/ DeliverListings
    \/ ConnectOk
    \/ ConnectFails
    \/ Subscribe
    \/ SubscribeClosed
    \/ RecvRaises
    \/ RecvListingNew
    \/ RecvListingNewClosed
    \/ RecvListingKnown
    \/ RecvOther
    \/ ClosedOk
    \/ ClosedError
    \/ Backoff
    \/ ExceptException

DiscoverySpec == Init /\ [][DiscoveryNext]_vars

\* Connections eventually succeed and stay up through lines 57-63: a
\* connection attempt that keeps being made succeeds at some point, and so
\* does an initial subscription that keeps being started.
LiveSpec ==
    /\ DiscoverySpec
    /\ WF_vars(Backoff) /\ WF_vars(ExceptException)
    /\ SF_vars(ConnectOk) /\ SF_vars(Subscribe)

TypeOK ==
    /\ pc \in {"connect", "subscribe", "recv", "backoff", "except"}
    /\ all_tokens \subseteq Tokens
    /\ Len(inbox) <= MaxInbox
    /\ puts <= txs /\ txs <= delivered /\ delivered <= MaxMsgs

(***************************************************************************)
(* A call of subscribe_to_multiple_trades on its own, one send per step.   *)
(***************************************************************************)
TokenList(n) == [i \in 1..n |-> "T" \o ToString(i)]

BatchInit ==
    /\ token_addresses \in {TokenList(n) : n \in 0..MaxTokens}
    /\ bpc = "loop"
    /\ bsent = <<>>
    /\ payload = NoData
    /\ parsed = None
    /\ ppc = "idle"
    /\ pc = "connect"
    /\ all_tokens = {}
    /\ inbox = <<>>
    /\ nextNo = 0
    /\ handledNo = 0
    /\ sent = <<>>
    /\ store = {}
    /\ content = <<>>
    /\ puts = 0
    /\ txs = 0
    /\ last = Nothing
    /\ subscribes = [t \in Tokens |-> 0]
    /\ outcome = "none"
    /\ slept = 0
    /\ delivered = 0

\* Line 103: the next group's request goes out.
BatchSend ==
    /\ bpc = "loop"
    /\ Len(bsent) < Len(TokenGroups(token_addresses))
    /\ bsent' = Append(bsent,
                       SubscriptionMessage(TokenGroups(token_addresses)[Len(bsent) + 1]))
    /\ UNCHANGED <<token_addresses, bpc, sessionVars, parseVars>>

\* Line 103 raises ConnectionClosed: the call ends there.
BatchSendRaises ==
    /\ bpc = "loop"
    /\ Len(bsent) < Len(TokenGroups(token_addresses))
    /\ bpc' = "raised"
    /\ UNCHANGED <<token_addresses, bsent, sessionVars, parseVars>>

\* Line 94: no group is left, the call returns.
BatchReturn ==
    /\ bpc = "loop"
    /\ Len(bsent) = Len(TokenGroups(token_addresses))
    /\ bpc' = "returned"
    /\ UNCHANGED <<token_addresses, bsent, sessionVars, parseVars>>

BatchNext == BatchSend \/ BatchSendRaises \/ BatchReturn

BatchSpec == BatchInit /\ [][BatchNext]_vars

(***************************************************************************)
(* A call of safe_parse_transaction on its own.                            *)
(***************************************************************************)
\* The arguments: the "data" of every frame, and every mapping among them
\* as text as well.
Payloads ==
    {frame.data : frame \in Frames}
    \cup {DataText("map", frame.data.m) : frame \in {f \in Frames : f.data.k = "map"}}
    \cup {DataOf("bool"), DataText("number", EmptyMapping),
          DataText("null", EmptyMapping)}

ParseInit ==
    /\ payload \in Payloads
    /\ parsed = None
    /\ ppc = "call"
    /\ token_addresses = <<>>
    /\ bpc = "idle"
    /\ bsent = <<>>
    /\ pc = "connect"
    /\ all_tokens = {}
    /\ inbox = <<>>
    /\ nextNo = 0
    /\ handledNo = 0
    /\ sent = <<>>
    /\ store = {}
    /\ content = <<>>
    /\ puts = 0
    /\ txs = 0
    /\ last = Nothing
    /\ subscribes = [t \in Tokens |-> 0]
    /\ outcome = "none"
    /\ slept = 0
    /\ delivered = 0

\* Lines 106-134: the call returns its result, or an exception leaves it.
ParseCall ==
    /\ ppc = "call"
    /\ parsed' = safe_parse_transaction(payload)
    /\ ppc' = IF safe_parse_transaction(payload).exc = "" THEN "returned"
              ELSE "raised"
    /\ UNCHANGED <<payload, sessionVars, batchVars>>

ParseNext == ParseCall

ParseSpec == ParseInit /\ [][ParseNext]_vars


(***************************************************************************)
(* Properties.                                                             *)
(***************************************************************************)
\* The requests of a connection that name a token.
Naming(requests, t) ==
    {i \in DOMAIN requests :
        \E j \in DOMAIN requests[i].group : requests[i].group[j] = t}

\* C1: however often a token is announced, the registry holds it once and
\* line 73 is called exactly once for it, with the query "address = <id>";
\* no connection carries two requests for the same token.
C1_OneSubscribePerToken ==
    /\ \A t \in Tokens : subscribes[t] = IF t \in all_tokens THEN 1 ELSE 0
    /\ \A t \in Tokens : Cardinality(Naming(sent, t)) <= 1
    /\ \A i \in DOMAIN sent :
         Len(sent[i].group) = 1 =>
            /\ sent[i].type = "SUBSCRIBE_TXS"
            /\ sent[i].query = "address = " \o sent[i].group[1]
    /\ last.at = "subscribed" =>
         /\ sent[Len(sent)].query = "address = " \o last.arg
         /\ last.arg \in all_tokens

\* A registered token was announced again and nothing was sent for it.
C1_Witness ==
    /\ last = Did("known", "TOK1")
    /\ "TOK1" \in all_tokens
    /\ subscribes["TOK1"] = 1
    /\ sent = <<NewListingRequest, SubscriptionMessage(<<"TOK1">>)>>

\* C2: on every connection the first request is SUBSCRIBE_TOKEN_NEW_LISTING,
\* it goes out once, and when the loop waits for the first frame of the
\* connection the requests sent cover the whole registry.
C2_SubscribeBeforeFirstFrame ==
    /\ sent # <<>> => sent[1] = NewListingRequest
    /\ \A i \in DOMAIN sent : i > 1 => sent[i].type = "SUBSCRIBE_TXS"
    /\ pc = "recv" => sent # <<>>
    /\ handledNo > 0 => sent # <<>>
    /\ (pc = "recv" /\ handledNo = 0) => all_tokens \subseteq Covered(sent)

\* A reconnect with two registered tokens, before its first frame.
C2_Witness ==
    /\ pc = "recv"
    /\ handledNo = 0
    /\ all_tokens = Tokens
    /\ Len(sent) = 2
    /\ sent[2].query = "address = TOK2 OR address = TOK1"

\* C3: no connection attempt follows a session end or a failed attempt
\* without the 5-second sleep in between.
C3_BackoffBeforeEveryConnect ==
    (pc = "connect" /\ outcome # "none") => slept = BackoffSeconds

\* C4: the supervisor has no terminal position, and from either exception
\* handler it gets back to the connection attempt.
C4_AlwaysReconnects ==
    /\ [](pc \in {"connect", "subscribe", "recv", "backoff", "except"})
    /\ (pc = "except") ~> (pc = "connect")
    /\ (pc = "backoff") ~> (pc = "connect")

\* Back at the connection attempt after a frame that made the loop raise.
C4_Witness == pc = "connect" /\ outcome = "fault" /\ last.at = "raised"

\* C5: a malformed frame is dropped and the session goes on receiving on
\* the same connection.
C5_MalformedFrameKeepsSession == last.at = "raised" => pc = "recv"


\* A step in which the loop body takes the oldest buffered frame.
Taking == pc = "recv" /\ inbox # <<>> /\ handledNo' = handledNo + 1

\* The frame is a TXS_DATA message whose data is, or decodes to, a mapping.
CarriesRecord(frame) ==
    /\ frame.shape = "map"
    /\ frame.type = "TXS_DATA"
    /\ frame.data.k = "map" \/ (frame.data.k = "str" /\ frame.data.decoded = "map")

\* The entity of a record as the claims put it: tokenAddress, else
\* to.address, "" when neither resolves.
EntityOf(m) ==
    IF m.tokenAddress.k = "str" /\ m.tokenAddress.s # "" THEN m.tokenAddress.s
    ELSE IF m.to.k = "map" /\ m.to.address.k = "str" THEN m.to.address.s
    ELSE ""

\* blockUnixTime is absent or is no JSON number.
NotAJsonNumber(v) == v.k \in {"absent", "null", "str", "bool", "list", "map"}

\* C6: a record with no resolvable entity, or whose blockUnixTime is absent
\* or not a JSON number, causes no upload, and the loop stays on the
\* connection.
C6_UnusableRecordNeverWritten ==
    [][(/\ Taking
        /\ CarriesRecord(inbox[1].frame)
        /\ \/ EntityOf(inbox[1].frame.data.m) = ""
           \/ NotAJsonNumber(inbox[1].frame.data.m.blockUnixTime))
       => (puts' = puts /\ store' = store /\ pc' = "recv")]_vars

\* The key the claims expect for a record.
ExpectedKey(m) ==
    "transactions/" \o EntityOf(m) \o "/" \o Strftime(m.blockUnixTime) \o ".json"

\* Every key the frames of the model can be stored under, written out.
KnownKeys ==
    {"transactions/" \o t \o "/" \o stamp \o ".json" :
        t \in Tokens,
        stamp \in {"2023-11-14_22-13-20", "2000-02-28_23-59-59",
                   "2000-02-29_00-00-00", "9999-12-31_23-59-59",
                   "1970-01-01_00-00-01"}}

\* A JSON number from 0 to 253402300799 once rounded to the microsecond.
RendersAsDate(v) ==
    /\ v.k \in {"int", "float"}
    /\ LET t == WholeSeconds(v)
       IN /\ t[1] >= 0
          /\ t[1] < 253 \/ (t[1] = 253 /\ t[2] <= 402300799)

\* The statement of C7 as given: every record with an entity and a numeric
\* blockUnixTime is uploaded once, at its key.
C7_EveryNumericRecordWritten ==
    [][(/\ Taking
        /\ CarriesRecord(inbox[1].frame)
        /\ EntityOf(inbox[1].frame.data.m) # ""
        /\ inbox[1].frame.data.m.blockUnixTime.k \in {"int", "float"})
       => /\ puts' = puts + 1
          /\ last'.arg = ExpectedKey(inbox[1].frame.data.m)]_vars

\* C7, amended: every TXS_DATA record with an entity and a numeric
\* blockUnixTime from 0 to 253402300799 causes exactly one upload, at
\* transactions/{entity}/{UTC time}.json, within the loop body that took it
\* and whatever the registry holds; uploads never outnumber the TXS_DATA
\* messages received.
C7_RenderableRecordWrittenOnce ==
    /\ [][(/\ Taking
           /\ CarriesRecord(inbox[1].frame)
           /\ EntityOf(inbox[1].frame.data.m) # ""
           /\ RendersAsDate(inbox[1].frame.data.m.blockUnixTime))
          => /\ puts' = puts + 1
             /\ last'.at \in {"uploaded", "upload_error"}
             /\ last'.arg = ExpectedKey(inbox[1].frame.data.m)
             /\ last'.arg \in KnownKeys
             /\ last'.at = "uploaded" => store' = store \cup {last'.arg}
             /\ (inbox[1].frame.data.m.tokenAddress = JStr("TOK1")
                    /\ inbox[1].frame.data.m.blockUnixTime = SampleTime)
                  => last'.arg = "transactions/TOK1/2023-11-14_22-13-20.json"]_vars
    /\ [](puts <= txs)
    /\ [](store \subseteq KnownKeys)

\* The sample record was uploaded while the registry was empty.
C7_Witness ==
    /\ last = Did("uploaded", "transactions/TOK1/2023-11-14_22-13-20.json")
    /\ store = {"transactions/TOK1/2023-11-14_22-13-20.json"}
    /\ all_tokens = {}
    /\ puts = 1

\* C8: a failed upload is attempted once and dropped: nothing is stored,
\* the registry, the requests sent and the connection stay as they were,
\* and the loop goes on with the next buffered frame.
C8_FailedUploadIsDropped ==
    [][(Taking /\ last'.at = "upload_error")
       => /\ puts' = puts + 1
          /\ store' = store
          /\ all_tokens' = all_tokens
          /\ sent' = sent
          /\ pc' = "recv"
          /\ outcome' = outcome
          /\ inbox' = Tail(inbox)]_vars

\* Two frames arrived on one connection: the upload of the first failed,
\* the second was processed after it.
C8_Witness ==
    /\ handledNo = 2
    /\ delivered = 2
    /\ puts = 1
    /\ store = {}
    /\ content = <<>>
    /\ last = Did("subscribed", "TOK1")
    /\ pc = "recv"

\* C9: a call that returns has sent ceil(N / 100) requests, none for an
\* empty list; request i covers the i-th run of at most 100 tokens of the
\* input, in input order.
C9_Batches ==
    LET n == Len(token_addresses)
        expected == (n + 99) \div 100
    IN /\ Len(bsent) <= expected
       /\ bpc = "returned" => Len(bsent) = expected
       /\ n = 0 => bsent = <<>>
       /\ \A i \in DOMAIN bsent :
            /\ bsent[i].type = "SUBSCRIBE_TXS"
            /\ bsent[i].queryType = "complex"
            /\ Len(bsent[i].group) \in 1..100
            /\ bsent[i].group =
                 SubSeq(token_addresses, 100 * (i - 1) + 1,
                        IF 100 * i < n THEN 100 * i ELSE n)
            /\ Len(bsent[i].group) = 1 =>
                 bsent[i].query = "address = " \o bsent[i].group[1]
            /\ Len(bsent[i].group) = 2 =>
                 bsent[i].query = "address = " \o bsent[i].group[1]
                    \o " OR address = " \o bsent[i].group[2]
            /\ Len(bsent[i].group) = 3 =>
                 bsent[i].query = "address = " \o bsent[i].group[1]
                    \o " OR address = " \o bsent[i].group[2]
                    \o " OR address = " \o bsent[i].group[3]

\* A list of 203 tokens went out as 100 + 100 + 3.
C9_Witness ==
    /\ bpc = "returned"
    /\ Len(token_addresses) = 203
    /\ Len(bsent) = 3
    /\ bsent[3].query = "address = T201 OR address = T202 OR address = T203"

\* The statement of C10 as given: no TXS_DATA record reaches the sink
\* before a request covering its entity went out on the connection.
C10_SubscribedBeforeEveryRecord ==
    [][(/\ Taking
        /\ CarriesRecord(inbox[1].frame)
        /\ inbox[1].frame.data.m # EmptyMapping
        /\ EntityOf(inbox[1].frame.data.m) # "")
       => EntityOf(inbox[1].frame.data.m) \in Covered(sent)]_vars

\* C10, amended: frames are taken one at a time in arrival order, and a
\* TXS_DATA record whose entity is in the registry when it is taken finds a
\* request covering that entity already sent on the connection.
C10_InOrderAndRegisteredSubscribed ==
    /\ [][/\ handledNo' # handledNo =>
               \/ pc = "connect" /\ handledNo' = 0
               \/ /\ Taking
                  /\ inbox[1].no = handledNo'
                  /\ pc' = "recv" => inbox' = Tail(inbox)
          /\ (/\ Taking
              /\ CarriesRecord(inbox[1].frame)
              /\ EntityOf(inbox[1].frame.data.m) \in all_tokens)
             => EntityOf(inbox[1].frame.data.m) \in Covered(sent)]_vars
    /\ [](\A i \in DOMAIN inbox : inbox[i].no = handledNo + i)

\* The record of a token registered on this connection was uploaded after
\* the request for it.
C10_Witness ==
    /\ last = Did("uploaded", "transactions/TOK1/2023-11-14_22-13-20.json")
    /\ handledNo >= 2
    /\ "TOK1" \in all_tokens
    /\ sent = <<NewListingRequest, SubscriptionMessage(<<"TOK1">>)>>

\* The records agree on the entity and on the second, given as a function
\* from a blockUnixTime to its limbs.
SameEntityAndSecond(m1, m2, second(_)) ==
    /\ EntityOf(m1) = EntityOf(m2)
    /\ second(m1.blockUnixTime) = second(m2.blockUnixTime)

\* The second a number is in, fraction cut off.
TruncatedSecond(v) == <<v.hi, v.lo>>

\* What an upload does to the bucket when the key depends on the entity and
\* on the given second only: one more put, the uploaded record is what the
\* key holds, a record already stored with the same entity and second is the
\* one replaced, and every other object is left as it was.
UploadKeyedBy(second(_)) ==
    (Taking /\ last'.at = "uploaded")
    => LET m == inbox[1].frame.data.m
           key == last'.arg
       IN /\ puts' = puts + 1
          /\ store' = store \cup {key}
          /\ content'[key] = m
          /\ \A k \in store :
                /\ SameEntityAndSecond(content[k], m, second)
                      => (k = key /\ store' = store)
                /\ k # key => content'[k] = content[k]

\* The statement of C11 as given: the key depends on the entity and on
\* blockUnixTime truncated to the second only.
C11_KeyOfTruncatedSecond == [][UploadKeyedBy(TruncatedSecond)]_vars

\* C11, amended: the key depends only on the entity and on the UTC second
\* blockUnixTime renders as once rounded to the microsecond; a record
\* uploaded after one with the same entity and rendered second goes to the
\* identical key, replaces that object and leaves one object there.
C11_KeyOfRenderedSecond == [][UploadKeyedBy(WholeSeconds)]_vars

\* Two uploads went to one key, which holds the record with the amount.
C11_Witness ==
    /\ puts = 2
    /\ store = {"transactions/TOK1/2023-11-14_22-13-20.json"}
    /\ content["transactions/TOK1/2023-11-14_22-13-20.json"].amount = JStr("1.5")


\* C12: safe_parse_transaction returns for every argument and no exception
\* leaves it; a mapping comes back unchanged, text that decodes to a mapping
\* comes back as that mapping, and everything else (text that decodes to
\* something else or does not decode, null, a number, a boolean, a list)
\* comes back as None; the call touches neither the registry, nor the
\* connection, nor the bucket.
C12_NormalizerTotal ==
    /\ ppc # "raised"
    /\ ppc = "returned"
        => IF payload.k = "map" \/ (payload.k = "str" /\ payload.decoded = "map")
           THEN parsed.ok /\ parsed.m = payload.m
           ELSE ~parsed.ok
    /\ all_tokens = {} /\ pc = "connect" /\ sent = <<>>
    /\ store = {} /\ puts = 0

\* The call returned None for text json.loads rejects.
C12_Witness ==
    /\ ppc = "returned"
    /\ payload = DataText("error", EmptyMapping)
    /\ ~parsed.ok

\* C13: no step takes an identifier out of the registry, so every token
\* line 73 was ever called for is in it, and a new session starts with the
\* registry the earlier sessions left.
C13_RegistryOnlyGrows ==
    /\ [][all_tokens \subseteq all_tokens']_vars
    /\ [][pc = "connect" => all_tokens' = all_tokens]_vars
    /\ [](\A t \in Tokens : subscribes[t] > 0 => t \in all_tokens)

\* A session starts after a backoff with both tokens still registered.
C13_Witness ==
    /\ pc = "subscribe"
    /\ slept = BackoffSeconds
    /\ all_tokens = Tokens

\* The loop body called process_transaction: it ended at one of its lines.
SinkCalled(did) ==
    did.at \in {"no_token", "bad_time", "error", "uploaded", "upload_error"}

\* C14: a TXS_DATA message reaches process_transaction exactly when its
\* data is a mapping or text that decodes to a mapping, the mapping with no
\* fields included; otherwise it is dropped, with no call, no upload and
\* nothing put back in the queue.
C14_ForwardedIffNormalized ==
    [][(/\ Taking
        /\ inbox[1].frame.shape = "map"
        /\ inbox[1].frame.type = "TXS_DATA")
       => /\ SinkCalled(last') <=> CarriesRecord(inbox[1].frame)
          /\ ~CarriesRecord(inbox[1].frame)
                => (last'.at = "missed" /\ puts' = puts /\ store' = store
                    /\ inbox' = Tail(inbox) /\ pc' = "recv")]_vars

\* The frame is a TOKEN_NEW_LISTING_DATA message whose data is a mapping
\* with a non-empty address that the registry does not hold.
AnnouncesNew(frame, registry) ==
    /\ frame.shape = "map"
    /\ frame.type = "TOKEN_NEW_LISTING_DATA"
    /\ frame.data.k = "map"
    /\ frame.data.m.address.k = "str"
    /\ frame.data.m.address.s # ""
    /\ frame.data.m.address.s \notin registry

\* C15: a loop body changes the registry or sends a request only for a
\* TOKEN_NEW_LISTING_DATA message with a non-empty address not yet
\* registered: then the address is added and one SUBSCRIBE_TXS for it goes
\* out (or the send finds the connection closed).  Every other message
\* leaves the registry and the requests sent as they were, and a message of
\* another type than the two also leaves the bucket as it was.
C15_OnlyNewListingsSubscribe ==
    [][Taking
       => LET frame == inbox[1].frame
          IN /\ IF AnnouncesNew(frame, all_tokens)
                THEN /\ all_tokens' = all_tokens \cup {frame.data.m.address.s}
                     /\ \/ /\ Len(sent') = Len(sent) + 1
                           /\ SubSeq(sent', 1, Len(sent)) = sent
                           /\ sent'[Len(sent')].type = "SUBSCRIBE_TXS"
                           /\ sent'[Len(sent')].group = <<frame.data.m.address.s>>
                        \/ sent' = sent /\ pc' = "backoff"
                ELSE all_tokens' = all_tokens /\ sent' = sent
             /\ (frame.shape = "map"
                    /\ frame.type \notin {"TOKEN_NEW_LISTING_DATA", "TXS_DATA"})
                  => (puts' = puts /\ store' = store /\ content' = content
                      /\ pc' = "recv")]_vars

\* A listing for the token already registered went by: the registry and the
\* requests of the connection are what they were.
C15_Witness ==
    /\ pc = "recv"
    /\ last = Did("known", "TOK1")
    /\ all_tokens = {"TOK1"}
    /\ sent = <<NewListingRequest, SubscriptionMessage(<<"TOK1">>)>>

\* The keys of the model under one entity.
KeysOf(entity) ==
    {"transactions/" \o entity \o "/" \o stamp \o ".json" :
        stamp \in {"2023-11-14_22-13-20", "2000-02-28_23-59-59",
                   "2000-02-29_00-00-00", "9999-12-31_23-59-59",
                   "1970-01-01_00-00-01"}}

\* C16: a record with a non-empty tokenAddress is keyed by it whatever
\* "to" holds; the address inside "to" keys the record only when
\* tokenAddress is absent or empty and "to" is a mapping with a non-empty
\* address; in every other case no entity is resolved and nothing is
\* written.
C16_DirectFieldPreferred ==
    [][(Taking /\ CarriesRecord(inbox[1].frame))
       => LET m == inbox[1].frame.data.m
              direct == m.tokenAddress.k = "str" /\ m.tokenAddress.s # ""
              nested == /\ m.to.k = "map"
                        /\ m.to.address.k = "str"
                        /\ m.to.address.s # ""
              keyed == last'.at \in {"uploaded", "upload_error"}
          IN /\ direct
                  => /\ last'.at \notin {"no_token", "missed"}
                     /\ keyed => last'.arg \in KeysOf(m.tokenAddress.s)
             /\ (~direct /\ nested)
                  => /\ last'.at \notin {"no_token", "missed"}
                     /\ keyed => last'.arg \in KeysOf(m.to.address.s)
             /\ (~direct /\ ~nested)
                  => /\ last'.at \in {"no_token", "missed"}
                     /\ puts' = puts /\ store' = store /\ content' = content]_vars

\* A record with tokenAddress TOK1 and TOK2 inside "to" is stored under
\* TOK1.
C16_Witness ==
    /\ "transactions/TOK1/2023-11-14_22-13-20.json" \in store
    /\ content["transactions/TOK1/2023-11-14_22-13-20.json"].to = ToMap(JStr("TOK2"))

\* C17: whenever the session waits for the next frame, every identifier in
\* the registry is named by a SUBSCRIBE_TXS request the current connection
\* accepted.
C17_RegistrySubscribedWhileReceiving ==
    pc = "recv"
        => \A t \in all_tokens :
             \E i \in DOMAIN sent :
                /\ sent[i].type = "SUBSCRIBE_TXS"
                /\ \E j \in DOMAIN sent[i].group : sent[i].group[j] = t

\* A session reached after a backoff waits for frames with both registered
\* tokens named in the one request of its re-subscription.
C17_Witness ==
    /\ pc = "recv"
    /\ slept = BackoffSeconds
    /\ all_tokens = Tokens
    /\ Len(sent) = 2
    /\ Len(sent[2].group) = 2

\* C18: the address of a new listing is in the registry once the loop body
\* has dealt with it, whether its SUBSCRIBE_TXS went out or the send found
\* the connection closed, and it stays there; and when connections
\* eventually succeed and last through the initial subscription, every
\* registered identifier is eventually named by a request the live
\* connection accepted.
C18_DiscoveredNeverLost ==
    /\ [][(Taking /\ AnnouncesNew(inbox[1].frame, all_tokens))
            => inbox[1].frame.data.m.address.s \in all_tokens']_vars
    /\ [](last.at = "send_closed" => last.arg \in all_tokens)
    /\ \A t \in Tokens :
          (t \in all_tokens) ~> (pc = "recv" /\ t \in Covered(sent))

\* The send for a new token found the connection closed: the token is
\* registered and no accepted request names it yet.
C18_Witness ==
    /\ pc = "backoff"
    /\ last = Did("send_closed", "TOK1")
    /\ "TOK1" \in all_tokens
    /\ "TOK1" \notin Covered(sent)

=============================================================================
